---- MODULE Spec2Model ----
(***************************************************************************)
(* A model of task_manager.py: the user and task record files, the engine  *)
(* functions that read, rewrite and aggregate them, and the role-gated     *)
(* session loop of main().                                                 *)
(*                                                                         *)
(* Representation of text.  A Python str (one line of input, one field) is *)
(* a non-empty sequence of tokens: the pieces str.split(", ") yields.  A   *)
(* str without the separator is a one-token sequence, the empty str is     *)
(* <<"">>, and "a, b" is <<"a", "b">>.  A line of a file is kept as its    *)
(* token sequence, so ", ".join(fields) is concatenation and a field that  *)
(* holds the separator changes the field count of the line it is written   *)
(* to.                                                                     *)
(***************************************************************************)
EXTENDS Integers, Sequences, FiniteSets, TLC

VARIABLES
    users,       \* user.txt: [exists, lines]
    tasks,       \* task.txt: [exists, lines]
    reports,     \* task_overview.txt and user_overview.txt
    pc,          \* position of main(): startup, login, menu, vm, exit
    cur,         \* current_user of the session loop
    vmUser,      \* my_username of a running view_my_tasks
    vmTasks,     \* user_tasks of a running view_my_tasks
    lastOp,      \* the last operation run: its argument, its outcome, and the
                 \* backup file it made
    maxEver      \* history: the greatest task id ever stored or assigned

vars == <<users, tasks, reports, pc, cur, vmUser, vmTasks, lastOp, maxEver>>

-----------------------------------------------------------------------------
(* Bounds of the model *)

MaxTasks == 2
MaxId == 2
MaxUsers == 3

-----------------------------------------------------------------------------
(* Text *)

Str(tok) == <<tok>>

EmptyStr == <<"">>

RECURSIVE Join(_)
Join(fields) ==
    IF fields = <<>> THEN <<>> ELSE Head(fields) \o Join(Tail(fields))

\* line.strip().split(", ") on a stored line, as a tuple of str
SplitFields(line) == [i \in 1..Len(line) |-> Str(line[i])]

Lower(tok) ==
    CASE tok = "Yes" -> "yes"
      [] tok = "No" -> "no"
      [] tok = "Admin" -> "admin"
      [] tok = "Non-Admin" -> "non-admin"
      [] OTHER -> tok

LowerStr(s) == [i \in 1..Len(s) |-> Lower(s[i])]

\* the decimal numerals of 0, 1, ...
Numerals == <<"0", "1", "2", "3", "4", "5", "6">>

\* str(n)
IntToStr(n) == Numerals[n + 1]

\* int(s) does not raise ValueError
IsInt(s) == Len(s) = 1 /\ \E n \in 0..(Len(Numerals) - 1) : Numerals[n + 1] = s[1]

\* int(s)
ParseInt(s) == CHOOSE n \in 0..(Len(Numerals) - 1) : Numerals[n + 1] = s[1]

Yesterday == "2026-11-03"
Today == "2026-11-04"
Tomorrow == "2026-11-05"

\* (Today is datetime.now().date(), one value for the whole of an operation)
\* datetime.strptime(s, "%Y-%m-%d") succeeds
IsDate(s) == Len(s) = 1 /\ s[1] \in {Yesterday, Today, Tomorrow}

DateOrd(s) ==
    CASE s[1] = Yesterday -> 1
      [] s[1] = Today -> 2
      [] s[1] = Tomorrow -> 3

TokLen(tok) ==
    CASE tok = "" -> 0
      [] tok = "al" -> 2
      [] tok = "pw" -> 2
      [] tok = "bob" -> 3
      [] tok = "a-b!" -> 4
      [] tok = "alice" -> 5
      [] tok = "carol" -> 5
      [] tok = "secret1" -> 7
      [] tok = "hunter22" -> 8
      [] OTHER -> 6

TokIsWord(tok) == tok \notin {"", "a-b!"}

RECURSIVE StrLen(_)
StrLen(s) ==
    IF Len(s) = 1 THEN TokLen(s[1]) ELSE TokLen(s[1]) + 2 + StrLen(Tail(s))

-----------------------------------------------------------------------------
(* Validation *)

validate_username(username) ==
    IF username = EmptyStr THEN "Username cannot be empty."
    ELSE IF StrLen(username) < 3 THEN "Username must be at least 3 characters long."
    ELSE IF StrLen(username) > 20 THEN "Username must be no more than 20 characters long."
    ELSE IF ~(Len(username) = 1 /\ TokIsWord(username[1]))
         THEN "Username can only contain letters, numbers, and underscores."
    ELSE ""

validate_password(password) ==
    IF password = EmptyStr THEN "Password cannot be empty."
    ELSE IF StrLen(password) < 6 THEN "Password must be at least 6 characters long."
    ELSE ""

validate_date_format(date_string) ==
    IF date_string = EmptyStr THEN "Date cannot be empty."
    ELSE IF IsDate(date_string) THEN ""
    ELSE "Invalid date format. Please use YYYY-MM-DD."

\* variant: the due date checked for its format only
validate_due_date_format_only(date_string) == validate_date_format(date_string)

validate_due_date(date_string) ==
    IF validate_date_format(date_string) # "" THEN validate_date_format(date_string)
    ELSE IF DateOrd(date_string) < DateOrd(Str(Today)) THEN "Due date cannot be in the past."
    ELSE ""

validate_non_empty(input_string) ==
    IF input_string = EmptyStr THEN "cannot be empty." ELSE ""

-----------------------------------------------------------------------------
(* Record store *)

NoFile == [exists |-> FALSE, lines |-> <<>>]

File(lines) == [exists |-> TRUE, lines |-> lines]

Is7(line) == Len(line) = 7

RECURSIVE Filter7(_)
Filter7(lines) ==
    IF lines = <<>> THEN <<>>
    ELSE IF Is7(Head(lines)) THEN <<SplitFields(Head(lines))>> \o Filter7(Tail(lines))
    ELSE Filter7(Tail(lines))

\* the list of 7-tuples; a missing file gives []
read_all_tasks(file) == IF file.exists THEN Filter7(file.lines) ELSE <<>>

\* full overwrite with the joined tuples
write_all_tasks(ts) == File([i \in 1..Len(ts) |-> Join(ts[i])])

\* open(file, "a"): creates the file when it is missing
AppendLine(file, line) == File(file.lines \o <<line>>)

MaxOf(S) == IF S = {} THEN 0 ELSE CHOOSE m \in S : \A x \in S : x <= m

IdsOf(file) ==
    {ParseInt(Str(file.lines[i][1])) :
        i \in {j \in 1..Len(file.lines) :
                 Is7(file.lines[j]) /\ IsInt(Str(file.lines[j][1]))}}

\* variant: the next id taken from the number of stored lines
get_next_task_id_by_count(file) == IF file.exists THEN Len(file.lines) + 1 ELSE 1

\* variant: the greatest integer first field of any line, whatever its
\* number of fields
get_next_task_id_any_line(file) ==
    IF file.exists
    THEN MaxOf({ParseInt(Str(file.lines[i][1])) :
                   i \in {j \in 1..Len(file.lines) : IsInt(Str(file.lines[j][1]))}}) + 1
    ELSE 1

get_next_task_id(file) == IF file.exists THEN MaxOf(IdsOf(file)) + 1 ELSE 1

\* variant: any username passes when there is a user file
user_exists_any_name(file, username) == file.exists

user_exists(file, username) ==
    file.exists /\ \E i \in 1..Len(file.lines) : Str(file.lines[i][1]) = username

\* no call of backup_file
NoBackup == [tried |-> FALSE, copy |-> NoFile]

\* variant: the call of backup_file left out
backup_file_skipped(file, ok) == NoBackup

\* a call of backup_file: the copy shutil.copy2 makes of the file as it is;
\* a missing file or an I/O fault (ok = FALSE) makes none
backup_file(file, ok) == [tried |-> TRUE, copy |-> IF file.exists /\ ok THEN file ELSE NoFile]

-----------------------------------------------------------------------------
(* Identity and authentication *)

NoUser == [username |-> "", password |-> "", role |-> ""]

Matches(line, username, password) ==
    Len(line) = 3 /\ Str(line[1]) = username /\ Str(line[2]) = password

\* User(stored_username, stored_password, stored_role) of the first 3-field
\* line that matches both inputs
matched_user(file, username, password) ==
    LET i == CHOOSE k \in 1..Len(file.lines) :
                /\ Matches(file.lines[k], username, password)
                /\ \A j \in 1..(k - 1) : ~Matches(file.lines[j], username, password)
    IN [username |-> file.lines[i][1],
        password |-> file.lines[i][2],
        role |-> file.lines[i][3]]

\* variant: a failed login of a stored username gets a message of its own
login_user_naming_password(file, username, password) ==
    IF ~file.exists
    THEN [user |-> NoUser, msg |-> "No users found. Please register first."]
    ELSE IF \E i \in 1..Len(file.lines) : Matches(file.lines[i], username, password)
    THEN [user |-> matched_user(file, username, password), msg |-> "Welcome"]
    ELSE IF user_exists(file, username)
    THEN [user |-> NoUser, msg |-> "Incorrect password. Please try again."]
    ELSE [user |-> NoUser, msg |-> "Invalid username or password. Please try again."]

\* the User login_user returns (NoUser for None), with the message printed
login_user(file, username, password) ==
    IF ~file.exists
    THEN [user |-> NoUser, msg |-> "No users found. Please register first."]
    ELSE IF \E i \in 1..Len(file.lines) : Matches(file.lines[i], username, password)
    THEN [user |-> matched_user(file, username, password), msg |-> "Welcome"]
    ELSE [user |-> NoUser, msg |-> "Invalid username or password. Please try again."]

Roles == {"Admin", "Non-Admin"}

\* variant: every run with a line in the file rewrites it
needs_update_any_line(lines) == lines # <<>>

needs_update(lines) == \E i \in 1..Len(lines) : Len(lines[i]) = 2

\* variant: only the lines that get a role are written back
RECURSIVE updated_lines_upgraded_only(_, _, _)
updated_lines_upgraded_only(lines, choice, k) ==
    IF k > Len(lines) THEN <<>>
    ELSE IF Len(lines[k]) = 2
         THEN <<lines[k] \o <<choice[k]>>>> \o updated_lines_upgraded_only(lines, choice, k + 1)
    ELSE updated_lines_upgraded_only(lines, choice, k + 1)

\* updated_lines: a 2-field line gets the role chosen for it, a 3-field line
\* is kept, any other line is left out
RECURSIVE updated_lines(_, _, _)
updated_lines(lines, choice, k) ==
    IF k > Len(lines) THEN <<>>
    ELSE IF Len(lines[k]) = 2
         THEN <<lines[k] \o <<choice[k]>>>> \o updated_lines(lines, choice, k + 1)
    ELSE IF Len(lines[k]) = 3
         THEN <<lines[k]>> \o updated_lines(lines, choice, k + 1)
    ELSE updated_lines(lines, choice, k + 1)

\* variant: the whole stored line compared with the new username
username_exists_whole_line(file, username) ==
    file.exists /\ \E i \in 1..Len(file.lines) : file.lines[i] = username

\* register_user: the first field of some stored line is the new username
username_exists(file, username) ==
    file.exists /\ \E i \in 1..Len(file.lines) : Str(file.lines[i][1]) = username

\* the reason register_user refuses its inputs, "" when it accepts them
register_error(file, username, password, confirm_password) ==
    IF validate_username(username) # "" THEN validate_username(username)
    ELSE IF username_exists(file, username) THEN "already exists"
    ELSE IF validate_password(password) # "" THEN validate_password(password)
    ELSE IF password # confirm_password THEN "Passwords do not match."
    ELSE ""

-----------------------------------------------------------------------------
(* Task lifecycle, on the list read_all_tasks returns *)

Yes == Str("Yes")
No == Str("No")

IsComplete(complete) == LowerStr(complete) = Str("yes")

\* view_my_tasks, action 1
new_status(complete) == IF complete = Yes THEN No ELSE Yes

\* variant: the status of the task inverted, whatever status is asked for
set_status_inverting(ts, task_id, status) ==
    [i \in 1..Len(ts) |->
        IF ts[i][1] = task_id
        THEN [ts[i] EXCEPT ![7] = IF ts[i][7] = Yes THEN No ELSE Yes]
        ELSE ts[i]]

\* variant: the status written to every task
set_status_every_task(ts, task_id, status) ==
    [i \in 1..Len(ts) |-> [ts[i] EXCEPT ![7] = status]]

set_status(ts, task_id, status) ==
    [i \in 1..Len(ts) |->
        IF ts[i][1] = task_id THEN [ts[i] EXCEPT ![7] = status] ELSE ts[i]]

\* view_my_tasks, action 2
set_owner_due(ts, task_id, new_username, new_due_date) ==
    [i \in 1..Len(ts) |->
        IF ts[i][1] = task_id
        THEN [ts[i] EXCEPT ![2] = new_username, ![5] = new_due_date]
        ELSE ts[i]]

HasId(ts, task_id) == \E i \in 1..Len(ts) : ts[i][1] = task_id

RECURSIVE OwnedBy(_, _)
OwnedBy(ts, username) ==
    IF ts = <<>> THEN <<>>
    ELSE IF Head(ts)[2] = username THEN <<Head(ts)>> \o OwnedBy(Tail(ts), username)
    ELSE OwnedBy(Tail(ts), username)

\* the first tuple of user_tasks with the selected id
selected_task(user_tasks, task_id) ==
    user_tasks[CHOOSE i \in 1..Len(user_tasks) :
                  /\ user_tasks[i][1] = task_id
                  /\ \A j \in 1..(i - 1) : user_tasks[j][1] # task_id]

\* reset_task_incomplete: only a completed task is reset
reset_found(ts, task_id) ==
    \E i \in 1..Len(ts) : ts[i][1] = task_id /\ IsComplete(ts[i][7])

reset_status(ts, task_id) ==
    [i \in 1..Len(ts) |->
        IF ts[i][1] = task_id /\ IsComplete(ts[i][7])
        THEN [ts[i] EXCEPT ![7] = No] ELSE ts[i]]

\* delete_task: the test of one tuple against the identifier
delete_match(t, task_identifier) == t[1] = task_identifier \/ t[3] = task_identifier

RECURSIVE delete_rest(_, _)
delete_rest(ts, task_identifier) ==
    IF ts = <<>> THEN <<>>
    ELSE IF delete_match(Head(ts), task_identifier)
         THEN delete_rest(Tail(ts), task_identifier)
    ELSE <<Head(ts)>> \o delete_rest(Tail(ts), task_identifier)

\* the reason add_task refuses its inputs, "" when it accepts them
add_task_error(ufile, task_username, task_title, task_description, task_due_date) ==
    IF validate_non_empty(task_username) # "" THEN "Username cannot be empty."
    ELSE IF ~user_exists(ufile, task_username) THEN "does not exist"
    ELSE IF validate_non_empty(task_title) # "" THEN "Task title cannot be empty."
    ELSE IF validate_non_empty(task_description) # "" THEN "Task description cannot be empty."
    ELSE validate_due_date(task_due_date)

new_task_line(task_id, task_username, task_title, task_description, task_due_date) ==
    Join(<<Str(IntToStr(task_id)), task_username, task_title, task_description,
           task_due_date, Str(Today), No>>)

-----------------------------------------------------------------------------
(* Reports *)

NoTaskReport ==
    [exists |-> FALSE, total |-> 0, completed |-> 0, incomplete |-> 0,
     overdue |-> 0, incomplete_pct |-> 0, overdue_pct |-> 0]

NoUserReport ==
    [exists |-> FALSE, finished |-> FALSE, total_users |-> 0, total_tasks |-> 0,
     rows |-> <<>>]

\* x / total * 100 as printed with :.2f, in hundredths of a percent
Pct(x, total) == IF total > 0 THEN (x * 20000 + total) \div (2 * total) ELSE 0

IsYes(t) == LowerStr(t[7]) = Str("yes")

IsNo(t) == LowerStr(t[7]) = Str("no")

IsOverdue(t) == IsNo(t) /\ IsDate(t[5]) /\ DateOrd(t[5]) < DateOrd(Str(Today))

\* variant: a task past its due date counted as overdue whatever its status
build_task_report_overdue_any_status(ts) ==
    LET total == Len(ts)
        completed == Cardinality({i \in 1..Len(ts) : IsYes(ts[i])})
        incomplete == total - completed
        overdue == Cardinality({i \in 1..Len(ts) :
                      IsDate(ts[i][5]) /\ DateOrd(ts[i][5]) < DateOrd(Str(Today))})
    IN [exists |-> TRUE, total |-> total, completed |-> completed,
        incomplete |-> incomplete, overdue |-> overdue,
        incomplete_pct |-> Pct(incomplete, total),
        overdue_pct |-> Pct(overdue, total)]

build_task_report(ts) ==
    LET total == Len(ts)
        completed == Cardinality({i \in 1..Len(ts) : IsYes(ts[i])})
        incomplete == total - completed
        overdue == Cardinality({i \in 1..Len(ts) : IsOverdue(ts[i])})
    IN [exists |-> TRUE, total |-> total, completed |-> completed,
        incomplete |-> incomplete, overdue |-> overdue,
        incomplete_pct |-> Pct(incomplete, total),
        overdue_pct |-> Pct(overdue, total)]

RECURSIVE report_users(_)
report_users(lines) ==
    IF lines = <<>> THEN <<>>
    ELSE IF Len(Head(lines)) = 3 THEN <<Str(Head(lines)[1])>> \o report_users(Tail(lines))
    ELSE report_users(Tail(lines))

\* the per-user overdue count parses the due date of each incomplete task
\* with no handler around it
row_raises(ts, user) ==
    \E i \in 1..Len(ts) : ts[i][2] = user /\ IsNo(ts[i]) /\ ~IsDate(ts[i][5])

\* variant: the incomplete percentage of a user taken of all the tasks
user_row_incomplete_of_all(ts, user) ==
    LET mine == OwnedBy(ts, user)
        count == Len(mine)
        completed == Cardinality({i \in 1..Len(mine) : IsYes(mine[i])})
        incomplete == count - completed
        overdue == Cardinality({i \in 1..Len(mine) : IsOverdue(mine[i])})
    IN [user |-> user, count |-> count, completed |-> completed,
        incomplete |-> incomplete, overdue |-> overdue,
        task_pct |-> Pct(count, Len(ts)),
        completed_pct |-> Pct(completed, count),
        incomplete_pct |-> Pct(incomplete, Len(ts)),
        overdue_pct |-> Pct(overdue, count)]

user_row(ts, user) ==
    LET mine == OwnedBy(ts, user)
        count == Len(mine)
        completed == Cardinality({i \in 1..Len(mine) : IsYes(mine[i])})
        incomplete == count - completed
        overdue == Cardinality({i \in 1..Len(mine) : IsOverdue(mine[i])})
    IN [user |-> user, count |-> count, completed |-> completed,
        incomplete |-> incomplete, overdue |-> overdue,
        task_pct |-> Pct(count, Len(ts)),
        completed_pct |-> Pct(completed, count),
        incomplete_pct |-> Pct(incomplete, count),
        overdue_pct |-> Pct(overdue, count)]

\* user_overview.txt as the with-block leaves it: the rows written before
\* the first user whose row raises
build_user_report(ufile, ts) ==
    LET us == report_users(ufile.lines)
        bad == {k \in 1..Len(us) : row_raises(ts, us[k])}
        n == IF bad = {} THEN Len(us) + 1
             ELSE CHOOSE k \in bad : \A j \in bad : k <= j
    IN [exists |-> TRUE, finished |-> bad = {}, total_users |-> Len(us),
        total_tasks |-> Len(ts), rows |-> [k \in 1..(n - 1) |-> user_row(ts, us[k])]]

\* both report files after generate_reports
generate_reports(old, ufile, tfile) ==
    LET ts == read_all_tasks(tfile)
    IN [task |-> build_task_report(ts),
        user |-> IF ufile.exists THEN build_user_report(ufile, ts) ELSE old.user]

generate_result(ufile, tfile) ==
    IF ~ufile.exists THEN "No task file found."
    ELSE IF build_user_report(ufile, read_all_tasks(tfile)).finished THEN "ok"
    ELSE "Error generating reports"

-----------------------------------------------------------------------------
(* Authorization gate of the session loop *)

AdminOnlyMenu == {"r", "vu", "vr", "dt", "vc", "rc", "gr", "ds"}

AnyUserMenu == {"a", "va", "vm", "uc"}

IsAdmin(role) == Lower(role) = "admin"

\* variant: the delete choice with no role test
Allowed_delete_unguarded(role, menu) ==
    menu \in AnyUserMenu \cup {"dt"} \/ (menu \in AdminOnlyMenu /\ IsAdmin(role))

\* whether main() runs the operation of a menu choice for a role
Allowed(role, menu) == menu \in AnyUserMenu \/ (menu \in AdminOnlyMenu /\ IsAdmin(role))

-----------------------------------------------------------------------------
(* Initial stores *)

Alice == Str("alice")
Bob == Str("bob")
Carol == Str("carol")

AliceAdmin == <<"alice", "secret1", "Admin">>
BobUser == <<"bob", "hunter22", "Non-Admin">>
BobLegacy == <<"bob", "hunter22">>

InitUsers == {NoFile, File(<<AliceAdmin, BobLegacy>>), File(<<AliceAdmin, BobUser>>)}

OldTask == <<"1", "bob", "T1", "D", Yesterday, Yesterday, "No">>
ShortLine == <<"2", "bob", "T1", Yesterday, Yesterday, "No">>

InitTasks == {NoFile, File(<<OldTask, ShortLine>>)}

Op(op, res, arg, id, backup) ==
    [op |-> op, res |-> res, arg |-> arg, id |-> id, backup |-> backup]

Init ==
    /\ users \in InitUsers
    /\ tasks \in InitTasks
    /\ reports = [task |-> NoTaskReport, user |-> NoUserReport]
    /\ pc = "startup"
    /\ cur = NoUser
    /\ vmUser = EmptyStr
    /\ vmTasks = <<>>
    /\ lastOp = Op("init", "", EmptyStr, 0, NoBackup)
    /\ maxEver = MaxOf(IdsOf(tasks))

-----------------------------------------------------------------------------
(* Startup, login, logout *)

\* verify_and_update_user_roles on the user file, run as operation op
VerifyRoles(op, choice, ok) ==
    IF users.exists /\ needs_update(users.lines)
    THEN /\ users' = File(updated_lines(users.lines, choice, 1))
         /\ lastOp' = Op(op, "updated", EmptyStr, 0, backup_file(users, ok))
    ELSE /\ UNCHANGED users
         /\ lastOp' = Op(op, "", EmptyStr, 0, NoBackup)

Startup ==
    /\ pc = "startup"
    /\ \E choice \in [1..Len(users.lines) -> Roles], ok \in BOOLEAN :
          VerifyRoles("startup", choice, ok)
    /\ pc' = "login"
    /\ UNCHANGED <<tasks, reports, cur, vmUser, vmTasks, maxEver>>

\* variant: the session loop entered whatever login_user returns
Login_entering_on_failure(username, password) ==
    /\ pc = "login"
    /\ LET r == login_user(users, username, password)
       IN /\ cur' = r.user
          /\ pc' = "menu"
          /\ lastOp' = Op("login", r.msg, username, 0, NoBackup)
    /\ UNCHANGED <<users, tasks, reports, vmUser, vmTasks, maxEver>>

Login(username, password) ==
    /\ pc = "login"
    /\ LET r == login_user(users, username, password)
       IN /\ cur' = r.user
          /\ pc' = IF r.user # NoUser THEN "menu" ELSE "login"
          /\ lastOp' = Op("login", r.msg, username, 0, NoBackup)
    /\ UNCHANGED <<users, tasks, reports, vmUser, vmTasks, maxEver>>

Logout ==
    /\ pc = "menu"
    /\ pc' = "login"
    /\ lastOp' = Op("lo", "", EmptyStr, 0, NoBackup)
    /\ UNCHANGED <<users, tasks, reports, cur, vmUser, vmTasks, maxEver>>

Exit ==
    /\ pc = "menu"
    /\ pc' = "exit"
    /\ lastOp' = Op("e", "", EmptyStr, 0, NoBackup)
    /\ UNCHANGED <<users, tasks, reports, cur, vmUser, vmTasks, maxEver>>

\* an Admin-only choice made by another role: the error line, nothing else
Denied(menu) ==
    /\ pc = "menu"
    /\ menu \in AdminOnlyMenu
    /\ ~Allowed(cur.role, menu)
    /\ lastOp' = Op(menu, "denied", EmptyStr, 0, NoBackup)
    /\ UNCHANGED <<users, tasks, reports, pc, cur, vmUser, vmTasks, maxEver>>

\* view_all_tasks, view_all_users, view_completed_tasks: print only
View(menu) ==
    /\ pc = "menu"
    /\ menu \in {"va", "vu", "vc"}
    /\ Allowed(cur.role, menu)
    /\ lastOp' = Op(menu, "shown", EmptyStr, 0, NoBackup)
    /\ UNCHANGED <<users, tasks, reports, pc, cur, vmUser, vmTasks, maxEver>>

-----------------------------------------------------------------------------
(* Menu operations on the user file *)

\* 'r': register_user.  A refused input is asked for again; nothing is
\* written until every input is accepted.
Register(username, password, confirm_password, role) ==
    /\ pc = "menu"
    /\ Allowed(cur.role, "r")
    /\ Len(users.lines) < MaxUsers
    /\ LET err == register_error(users, username, password, confirm_password)
       IN IF err # ""
          THEN /\ lastOp' = Op("r", err, username, 0, NoBackup)
               /\ UNCHANGED users
          ELSE /\ users' = AppendLine(users, Join(<<username, password, Str(role)>>))
               /\ lastOp' = Op("r", "ok", username, 0, NoBackup)
    /\ UNCHANGED <<tasks, reports, pc, cur, vmUser, vmTasks, maxEver>>

\* 'vr': verify_and_update_user_roles from the menu
VerifyRolesMenu ==
    /\ pc = "menu"
    /\ Allowed(cur.role, "vr")
    /\ \E choice \in [1..Len(users.lines) -> Roles], ok \in BOOLEAN :
          VerifyRoles("vr", choice, ok)
    /\ UNCHANGED <<tasks, reports, pc, cur, vmUser, vmTasks, maxEver>>

-----------------------------------------------------------------------------
(* Menu operations on the task file *)

\* 'a': add_task.  A refused input is asked for again; nothing is written
\* until every input is accepted.
AddTask(task_username, task_title, task_description, task_due_date) ==
    /\ pc = "menu"
    /\ Allowed(cur.role, "a")
    /\ Len(tasks.lines) < MaxTasks
    /\ get_next_task_id(tasks) <= MaxId
    /\ LET err == add_task_error(users, task_username, task_title,
                                 task_description, task_due_date)
           task_id == get_next_task_id(tasks)
       IN IF err # ""
          THEN /\ lastOp' = Op("a", err, task_username, 0, NoBackup)
               /\ UNCHANGED <<tasks, maxEver>>
          ELSE /\ tasks' = AppendLine(tasks, new_task_line(task_id, task_username,
                                 task_title, task_description, task_due_date))
               /\ lastOp' = Op("a", "ok", task_username, task_id, NoBackup)
               /\ maxEver' = IF task_id > maxEver THEN task_id ELSE maxEver
    /\ UNCHANGED <<users, reports, pc, cur, vmUser, vmTasks>>

\* variant: the list that was read is written back when the id is not found
MarkComplete_rewriting_when_not_found(task_id) ==
    /\ pc = "menu"
    /\ Allowed(cur.role, "uc")
    /\ LET ts == read_all_tasks(tasks)
       IN IF HasId(ts, task_id)
          THEN /\ tasks' = write_all_tasks(set_status(ts, task_id, Yes))
               /\ lastOp' = Op("uc", "ok", task_id, 0, NoBackup)
          ELSE /\ lastOp' = Op("uc", "not found", task_id, 0, NoBackup)
               /\ tasks' = write_all_tasks(ts)
    /\ UNCHANGED <<users, reports, pc, cur, vmUser, vmTasks, maxEver>>

\* 'uc': update_task_complete
MarkComplete(task_id) ==
    /\ pc = "menu"
    /\ Allowed(cur.role, "uc")
    /\ LET ts == read_all_tasks(tasks)
       IN IF HasId(ts, task_id)
          THEN /\ tasks' = write_all_tasks(set_status(ts, task_id, Yes))
               /\ lastOp' = Op("uc", "ok", task_id, 0, NoBackup)
          ELSE /\ lastOp' = Op("uc", "not found", task_id, 0, NoBackup)
               /\ UNCHANGED tasks
    /\ UNCHANGED <<users, reports, pc, cur, vmUser, vmTasks, maxEver>>

\* what reset_task_incomplete prints for a task id
reset_result(ts, task_id) ==
    IF reset_found(ts, task_id) THEN "ok"
    ELSE IF HasId(ts, task_id) THEN "already incomplete, not found"
    ELSE "not found"

\* 'rc': reset_task_incomplete
ResetIncomplete(task_id) ==
    /\ pc = "menu"
    /\ Allowed(cur.role, "rc")
    /\ LET ts == read_all_tasks(tasks)
       IN /\ lastOp' = Op("rc", reset_result(ts, task_id), task_id, 0, NoBackup)
          /\ IF reset_found(ts, task_id)
             THEN tasks' = write_all_tasks(reset_status(ts, task_id))
             ELSE UNCHANGED tasks
    /\ UNCHANGED <<users, reports, pc, cur, vmUser, vmTasks, maxEver>>

\* variant: a failed backup ends the delete before anything is written
DeleteTask_stopped_by_failed_backup(task_identifier, ok) ==
    /\ pc = "menu"
    /\ Allowed(cur.role, "dt")
    /\ LET ts == read_all_tasks(tasks)
           found == \E i \in 1..Len(ts) : delete_match(ts[i], task_identifier)
       IN IF found /\ backup_file(tasks, ok).copy.exists
          THEN /\ tasks' = write_all_tasks(delete_rest(ts, task_identifier))
               /\ lastOp' = Op("dt", "ok", task_identifier, 0, backup_file(tasks, ok))
          ELSE /\ lastOp' = Op("dt", "not found", task_identifier, 0, backup_file(tasks, ok))
               /\ UNCHANGED tasks
    /\ UNCHANGED <<users, reports, pc, cur, vmUser, vmTasks, maxEver>>

\* 'dt': delete_task
DeleteTask(task_identifier, ok) ==
    /\ pc = "menu"
    /\ Allowed(cur.role, "dt")
    /\ LET ts == read_all_tasks(tasks)
           found == \E i \in 1..Len(ts) : delete_match(ts[i], task_identifier)
       IN IF found
          THEN /\ tasks' = write_all_tasks(delete_rest(ts, task_identifier))
               /\ lastOp' = Op("dt", "ok", task_identifier, 0, backup_file(tasks, ok))
          ELSE /\ lastOp' = Op("dt", "not found", task_identifier, 0, backup_file(tasks, ok))
               /\ UNCHANGED tasks
    /\ UNCHANGED <<users, reports, pc, cur, vmUser, vmTasks, maxEver>>

-----------------------------------------------------------------------------
(* view_my_tasks *)

\* 'vm': the username is asked for, the tasks of that name are listed, and
\* the selection loop starts when there is at least one
ViewMyTasks(my_username) ==
    /\ pc = "menu"
    /\ Allowed(cur.role, "vm")
    /\ validate_non_empty(my_username) = ""
    /\ LET user_tasks == OwnedBy(read_all_tasks(tasks), my_username)
       IN IF user_tasks = <<>>
          THEN /\ lastOp' = Op("vm", "no tasks", my_username, 0, NoBackup)
               /\ UNCHANGED <<pc, vmUser, vmTasks>>
          ELSE /\ lastOp' = Op("vm", "listed", my_username, 0, NoBackup)
               /\ pc' = "vm"
               /\ vmUser' = my_username
               /\ vmTasks' = user_tasks
    /\ UNCHANGED <<users, tasks, reports, cur, maxEver>>

\* the end of one pass of the selection loop: "Select another task?"
Another(another, user_tasks) ==
    IF another
    THEN /\ pc' = "vm"
         /\ vmTasks' = user_tasks
         /\ UNCHANGED vmUser
    ELSE /\ pc' = "menu"
         /\ vmTasks' = <<>>
         /\ vmUser' = EmptyStr

\* action 1 on a selected task: the status shown in user_tasks is inverted
\* and written to every stored task with that id
VmToggle(task_id, another) ==
    /\ pc = "vm"
    /\ IsInt(task_id)
    /\ HasId(vmTasks, task_id)
    /\ LET complete == selected_task(vmTasks, task_id)[7]
       IN /\ tasks' = write_all_tasks(
                         set_status(read_all_tasks(tasks), task_id, new_status(complete)))
          /\ lastOp' = Op("vm_toggle", "ok", task_id, 0, NoBackup)
    /\ Another(another, vmTasks)
    /\ UNCHANGED <<users, reports, cur, maxEver>>

\* the reason action 2 writes nothing, "" when it goes on to the rewrite
edit_error(complete, edit_options, new_username, new_due_date) ==
    IF IsComplete(complete) THEN "Cannot edit a completed task."
    ELSE IF edit_options \notin {"1", "2", "3"} THEN "cancel"
    ELSE IF edit_options \in {"1", "3"} /\ validate_non_empty(new_username) # ""
         THEN "Username cannot be empty."
    ELSE IF edit_options \in {"2", "3"} /\ validate_date_format(new_due_date) # ""
         THEN validate_date_format(new_due_date)
    ELSE ""

\* action 2 on a selected task
VmEdit(task_id, edit_options, new_username_in, new_due_date_in, another) ==
    /\ pc = "vm"
    /\ IsInt(task_id)
    /\ HasId(vmTasks, task_id)
    /\ LET t == selected_task(vmTasks, task_id)
           err == edit_error(t[7], edit_options, new_username_in, new_due_date_in)
           new_username == IF edit_options \in {"1", "3"} THEN new_username_in ELSE t[2]
           new_due_date == IF edit_options \in {"2", "3"} THEN new_due_date_in ELSE t[5]
           all_file_tasks == read_all_tasks(tasks)
       IN IF err # ""
          THEN /\ lastOp' = Op("vm_edit", err, task_id, 0, NoBackup)
               /\ UNCHANGED tasks
               /\ Another(another, vmTasks)
          ELSE IF HasId(all_file_tasks, task_id)
          THEN /\ tasks' = write_all_tasks(
                              set_owner_due(all_file_tasks, task_id, new_username, new_due_date))
               /\ lastOp' = Op("vm_edit", "ok", task_id, 0, NoBackup)
               /\ Another(another, OwnedBy(read_all_tasks(tasks'), vmUser))
          ELSE /\ lastOp' = Op("vm_edit", "not updated", task_id, 0, NoBackup)
               /\ UNCHANGED tasks
               /\ Another(another, vmTasks)
    /\ UNCHANGED <<users, reports, cur, maxEver>>

\* -1 or an empty selection, or action 3
VmBack ==
    /\ pc = "vm"
    /\ Another(FALSE, vmTasks)
    /\ lastOp' = Op("vm_back", "", EmptyStr, 0, NoBackup)
    /\ UNCHANGED <<users, tasks, reports, cur, maxEver>>

-----------------------------------------------------------------------------
(* Report operations *)

\* 'gr': generate_reports
GenerateReports ==
    /\ pc = "menu"
    /\ Allowed(cur.role, "gr")
    /\ reports' = generate_reports(reports, users, tasks)
    /\ lastOp' = Op("gr", generate_result(users, tasks), EmptyStr, 0, NoBackup)
    /\ UNCHANGED <<users, tasks, pc, cur, vmUser, vmTasks, maxEver>>

\* 'ds': display_statistics generates the reports only when a report file is
\* missing, then prints the two files
DisplayStatistics ==
    /\ pc = "menu"
    /\ Allowed(cur.role, "ds")
    /\ reports' = IF ~reports.task.exists \/ ~reports.user.exists
                  THEN generate_reports(reports, users, tasks)
                  ELSE reports
    /\ lastOp' = Op("ds", IF reports'.task.exists /\ reports'.user.exists
                          THEN "shown" ELSE "Report files not found.",
                    EmptyStr, 0, NoBackup)
    /\ UNCHANGED <<users, tasks, pc, cur, vmUser, vmTasks, maxEver>>

-----------------------------------------------------------------------------
(* The program.  main() is one loop over the menu; the inputs typed at the *)
(* prompts are drawn from small sets.  The reachable states are a product  *)
(* of the user file, the task file, the report files and the session, so   *)
(* besides the whole program there are specifications that each leave out  *)
(* the menu choices that do not touch one store and draw more inputs for   *)
(* the ones that do.                                                       *)

TaskIdInputs == {Str(IntToStr(n)) : n \in 1..MaxId}

LoginNames == {Alice, Bob, Carol, Str("ghost")}

LoginPasswords == {Str("secret1"), Str("hunter22")}

Session ==
    \/ Startup
    \/ \E username \in LoginNames, password \in LoginPasswords : Login(username, password)
    \/ Logout
    \/ Exit
    \/ \E menu \in AdminOnlyMenu : Denied(menu)

Next ==
    \/ Session
    \/ \E menu \in {"va", "vu", "vc"} : View(menu)
    \/ Register(Carol, Str("secret1"), Str("secret1"), "Non-Admin")
    \/ VerifyRolesMenu
    \/ AddTask(Alice, Str("T1"), Str("D"), Str(Today))
    \/ \E task_id \in TaskIdInputs : MarkComplete(task_id)
    \/ \E task_id \in TaskIdInputs : ResetIncomplete(task_id)
    \/ \E task_identifier \in TaskIdInputs, ok \in BOOLEAN : DeleteTask(task_identifier, ok)
    \/ \E my_username \in {Alice, Bob} : ViewMyTasks(my_username)
    \/ \E task_id \in TaskIdInputs, another \in BOOLEAN : VmToggle(task_id, another)
    \/ \E task_id \in TaskIdInputs, another \in BOOLEAN :
          VmEdit(task_id, "3", Str("zed"), Str(Yesterday), another)
    \/ VmBack
    \/ GenerateReports
    \/ DisplayStatistics

Spec == Init /\ [][Next]_vars

\* The task operations, with two registered users
TaskOps ==
    \/ \E o \in {Alice, Str("ghost")}, t \in {Str("T1"), Str("2"), <<"T1", "x">>},
          due \in {Str(Today), Str(Yesterday)} :
          AddTask(o, t, Str("D"), due)
    \/ \E task_id \in TaskIdInputs : MarkComplete(task_id)
    \/ \E task_id \in TaskIdInputs : ResetIncomplete(task_id)
    \/ \E task_identifier \in TaskIdInputs \cup {Str("T1")}, ok \in BOOLEAN :
          DeleteTask(task_identifier, ok)
    \/ \E my_username \in {Alice, Bob} : ViewMyTasks(my_username)
    \/ \E task_id \in TaskIdInputs, another \in BOOLEAN : VmToggle(task_id, another)
    \/ \E task_id \in TaskIdInputs, edit_options \in {"1", "2", "3", "4"},
          new_due_date \in {Str(Yesterday), Str("soon")}, another \in BOOLEAN :
          VmEdit(task_id, edit_options, Str("zed"), new_due_date, another)
    \/ VmBack

TaskInit == Init /\ users = File(<<AliceAdmin, BobUser>>)

TaskSpec == TaskInit /\ [][Session \/ TaskOps]_vars

\* The same, started with no task file
FreshTaskInit == TaskInit /\ tasks = NoFile

FreshTaskSpec == FreshTaskInit /\ [][Session \/ TaskOps]_vars

\* The selection loop of view_my_tasks with a new owner that holds the field
\* separator, with two registered users
EditOps ==
    \/ AddTask(Alice, Str("T1"), Str("D"), Str(Today))
    \/ \E my_username \in {Alice, Bob, <<"a", "b">>} : ViewMyTasks(my_username)
    \/ \E task_id \in TaskIdInputs, another \in BOOLEAN : VmToggle(task_id, another)
    \/ \E task_id \in TaskIdInputs, edit_options \in {"1", "2", "3"},
          new_username \in {Str("zed"), <<"a", "b">>}, another \in BOOLEAN :
          VmEdit(task_id, edit_options, new_username, Str(Tomorrow), another)
    \/ VmBack

EditSpec == TaskInit /\ [][Session \/ EditOps]_vars

\* read_all_tasks on task files of up to two lines, drawn from a line of 7
\* fields, lines of 6 and of 8 fields, and a line of 7 fields whose first
\* field is no integer; the files are read by the view operations
BadIdLine == <<"x", "bob", "T1", "D", Yesterday, Yesterday, "No">>
LongLine == <<"2", "bob", "T1", "x", "D", Yesterday, Yesterday, "No">>

LoadLines == {OldTask, ShortLine, BadIdLine, LongLine}

LoadFiles ==
    {NoFile, File(<<>>)}
        \cup {File(<<a>>) : a \in LoadLines}
        \cup {File(<<a, b>>) : a \in LoadLines, b \in LoadLines}

LoadInit ==
    /\ users = File(<<AliceAdmin, BobUser>>)
    /\ tasks \in LoadFiles
    /\ reports = [task |-> NoTaskReport, user |-> NoUserReport]
    /\ pc = "startup"
    /\ cur = NoUser
    /\ vmUser = EmptyStr
    /\ vmTasks = <<>>
    /\ lastOp = Op("init", "", EmptyStr, 0, NoBackup)
    /\ maxEver = MaxOf(IdsOf(tasks))

LoadSpec == LoadInit /\ [][Session \/ (\E menu \in {"va", "vu", "vc"} : View(menu))]_vars

\* generate_reports and display_statistics on task files of up to MaxTasks
\* lines of 7 fields with ids 1, 2, ...: each line is of alice or of bob, due
\* before or after the current date or on no date at all, complete or not
ReportOwners == {"alice", "bob"}

ReportDues == {Yesterday, Tomorrow, "soon"}

ReportStatuses == {"Yes", "No"}

ReportLine(i, owner, due, status) ==
    <<IntToStr(i), owner, "T1", "D", due, Yesterday, status>>

ReportFiles ==
    {NoFile} \cup
    {File([i \in 1..n |-> ReportLine(i, f[i][1], f[i][2], f[i][3])]) :
        n \in 0..MaxTasks,
        f \in [1..MaxTasks -> ReportOwners \X ReportDues \X ReportStatuses]}

ReportInit ==
    /\ users = File(<<AliceAdmin, BobUser>>)
    /\ tasks \in ReportFiles
    /\ reports = [task |-> NoTaskReport, user |-> NoUserReport]
    /\ pc = "startup"
    /\ cur = NoUser
    /\ vmUser = EmptyStr
    /\ vmTasks = <<>>
    /\ lastOp = Op("init", "", EmptyStr, 0, NoBackup)
    /\ maxEver = MaxOf(IdsOf(tasks))

ReportSpec == ReportInit /\ [][Session \/ GenerateReports \/ DisplayStatistics]_vars

\* The operations that call backup_file, delete_task and the role check, with
\* a create to refill the task file; the copy may fail
BackupOps ==
    \/ VerifyRolesMenu
    \/ AddTask(Alice, Str("T1"), Str("D"), Str(Today))
    \/ \E task_identifier \in TaskIdInputs \cup {Str("T1")}, ok \in BOOLEAN :
          DeleteTask(task_identifier, ok)

BackupSpec == Init /\ [][Session \/ BackupOps]_vars

\* get_next_task_id on the task files of LoadFiles, with creates and deletes
NextIdOps ==
    \/ AddTask(Alice, Str("T1"), Str("D"), Str(Today))
    \/ \E task_identifier \in TaskIdInputs, ok \in BOOLEAN : DeleteTask(task_identifier, ok)

NextIdSpec == LoadInit /\ [][Session \/ NextIdOps]_vars

\* The operations that set a status, with the others that rewrite the task
\* file: a create, a delete, and an edit with a new owner from EditOwners
StatusFrameOps ==
    \/ AddTask(Alice, Str("T1"), Str("D"), Str(Today))
    \/ \E task_id \in TaskIdInputs : MarkComplete(task_id)
    \/ \E task_id \in TaskIdInputs : ResetIncomplete(task_id)
    \/ \E task_identifier \in TaskIdInputs, ok \in BOOLEAN : DeleteTask(task_identifier, ok)
    \/ \E my_username \in {Alice, Bob} : ViewMyTasks(my_username)
    \/ \E task_id \in TaskIdInputs, another \in BOOLEAN : VmToggle(task_id, another)
    \/ \E task_id \in TaskIdInputs, new_username \in {Str("zed"), <<"a", "b">>},
          another \in BOOLEAN :
          VmEdit(task_id, "3", new_username, Str(Tomorrow), another)
    \/ VmBack

StatusFrameSpec == TaskInit /\ [][Session \/ StatusFrameOps]_vars

\* The operations that look a task up by an identifier, with identifiers
\* that match a task and identifiers that match none, and a create
LookupIds == TaskIdInputs \cup {Str("9")}

LookupOps ==
    \/ AddTask(Alice, Str("T1"), Str("D"), Str(Today))
    \/ \E task_id \in LookupIds : MarkComplete(task_id)
    \/ \E task_id \in LookupIds : ResetIncomplete(task_id)
    \/ \E task_identifier \in LookupIds \cup {Str("T1"), Str("T9")}, ok \in BOOLEAN :
          DeleteTask(task_identifier, ok)

LookupSpec == TaskInit /\ [][Session \/ LookupOps]_vars

\* Every menu choice of main(), each with one input, started with two
\* registered users and no task file
SessionOps ==
    \/ \E menu \in {"va", "vu", "vc"} : View(menu)
    \/ Register(Carol, Str("secret1"), Str("secret1"), "Admin")
    \/ VerifyRolesMenu
    \/ AddTask(Alice, Str("T1"), Str("D"), Str(Today))
    \/ MarkComplete(Str("1"))
    \/ ResetIncomplete(Str("1"))
    \/ DeleteTask(Str("1"), TRUE)
    \/ ViewMyTasks(Alice)
    \/ \E another \in BOOLEAN : VmToggle(Str("1"), another)
    \/ VmEdit(Str("1"), "2", Str("zed"), Str(Tomorrow), FALSE)
    \/ VmBack
    \/ GenerateReports
    \/ DisplayStatistics

SessionSpec == FreshTaskInit /\ [][Session \/ SessionOps]_vars

\* The user operations, with no task file
UserOps ==
    \/ \E menu \in {"va", "vu", "vc"} : View(menu)
    \/ \E username \in {Carol, Alice, Str("al")},
          password \in {Str("secret1"), Str("pw"), <<"pass", "word">>}, role \in Roles :
          \E confirm_password \in {password, Str("secret1")} :
             Register(username, password, confirm_password, role)
    \/ VerifyRolesMenu

UserInit == Init /\ tasks = NoFile

UserSpec == UserInit /\ [][Session \/ UserOps]_vars

-----------------------------------------------------------------------------
(* Properties *)

\* the tasks read_all_tasks returns in the current state
Stored == read_all_tasks(tasks)

StoredComplete(task_id) ==
    \E i \in 1..Len(Stored) : Stored[i][1] = task_id /\ IsComplete(Stored[i][7])

Flipped(complete) == IF IsComplete(complete) THEN No ELSE Yes

\* C1: the id a successful create assigns is greater than every id stored
\* or assigned before it, ids of deleted tasks included
C1_CreatedIdAboveEveryEarlierId ==
    [][(lastOp'.op = "a" /\ lastOp'.res = "ok" /\ tasks' # tasks)
          => lastOp'.id > maxEver]_vars

\* C2: an edit asked for on a task whose stored status is Complete is
\* refused with the edit-locked error and writes nothing
C2_EditOfCompleteTaskRefused ==
    [][(pc = "vm" /\ lastOp'.op = "vm_edit" /\ StoredComplete(lastOp'.arg))
          => (lastOp'.res = "Cannot edit a completed task." /\ tasks' = tasks)]_vars

\* C3: every status toggle inverts the stored status of the selected task
\* (so two toggles in a row restore it)
C3_ToggleInvertsStoredStatus ==
    [][(pc = "vm" /\ lastOp'.op = "vm_toggle")
          => \A i \in 1..Len(Stored) :
                Stored[i][1] = lastOp'.arg
                   => read_all_tasks(tasks')[i][7] = Flipped(Stored[i][7])]_vars

C5_NonAdminChangesOwnTasksOnly ==
    [][(pc \in {"menu", "vm"} /\ ~IsAdmin(cur.role)
          /\ lastOp'.op \in {"vm_toggle", "vm_edit", "uc"})
          => \A i \in 1..Len(Stored) :
                Stored[i][2] # Str(cur.username)
                   => /\ i <= Len(read_all_tasks(tasks'))
                      /\ read_all_tasks(tasks')[i] = Stored[i]]_vars

\* C6: started with no task file, every stored task has a positive integer
\* id and no two stored tasks have the same id
C6_IdsUniqueAndPositive ==
    \A i, j \in 1..Len(Stored) :
        /\ IsInt(Stored[i][1])
        /\ ParseInt(Stored[i][1]) >= 1
        /\ (Stored[i][1] = Stored[j][1] => i = j)

\* two tasks created, the first marked complete, the second edited
C6_Witness ==
    /\ Len(Stored) = 2
    /\ Stored[1][7] = Yes
    /\ Stored[2][2] = Str("zed")

\* C7: no two stored users have the same username, and a registration under
\* a stored username is refused with the duplicate error and writes nothing
C7_UsernamesUnique ==
    /\ [](\A i, j \in 1..Len(users.lines) :
            users.lines[i][1] = users.lines[j][1] => i = j)
    /\ [][(pc = "menu" /\ lastOp'.op = "r"
            /\ \E i \in 1..Len(users.lines) : Str(users.lines[i][1]) = lastOp'.arg)
            => (lastOp'.res = "already exists" /\ users' = users)]_vars

\* a registration as alice has been refused
C7_Witness ==
    /\ lastOp.op = "r" /\ lastOp.res = "already exists" /\ lastOp.arg = Alice
    /\ Len(users.lines) >= 2

FailedLoginInputs ==
    {Alice, Bob, Carol, Str("ghost"), <<"alice", "secret1">>}

FailedLoginPasswords ==
    {Str("secret1"), Str("hunter22"), Str("Secret1"), EmptyStr, <<"secret1", "Admin">>}

\* C8: on one user file any two failed logins get the same answer, whether
\* the username is stored or not; a login succeeds only with the username
\* and the password of one stored 3-field line, and the failure printed by
\* the last login is the one an unknown username gets
C8_FailedLoginsAlike ==
    /\ \A u1 \in FailedLoginInputs, u2 \in FailedLoginInputs,
          p1 \in FailedLoginPasswords, p2 \in FailedLoginPasswords :
          LET r1 == login_user(users, u1, p1)
              r2 == login_user(users, u2, p2)
          IN /\ (r1.user = NoUser /\ r2.user = NoUser) => r1 = r2
             /\ r1.user # NoUser =>
                   \E i \in 1..Len(users.lines) :
                       users.lines[i] = <<r1.user.username, r1.user.password, r1.user.role>>
                       /\ u1 = Str(r1.user.username) /\ p1 = Str(r1.user.password)
    /\ (lastOp.op = "login" /\ lastOp.res # "Welcome")
          => lastOp.res = login_user(users, Str("nobody"), Str("x")).msg

\* a login as alice, who is stored, has failed on the password
C8_Witness ==
    /\ lastOp.op = "login" /\ lastOp.arg = Alice
    /\ lastOp.res = "Invalid username or password. Please try again."
    /\ \E i \in 1..Len(users.lines) : users.lines[i][1] = "alice"

RemoveAt(ts, k) == SubSeq(ts, 1, k - 1) \o SubSeq(ts, k + 1, Len(ts))

\* the one task delete(idOrTitle) is to remove: the first whose id is the
\* identifier, and only when there is none the first whose title is
DeleteTarget(ts, task_identifier) ==
    LET byId == {i \in 1..Len(ts) : ts[i][1] = task_identifier}
        byTitle == {i \in 1..Len(ts) : ts[i][3] = task_identifier}
    IN IF byId # {} THEN CHOOSE i \in byId : \A j \in byId : i <= j
       ELSE CHOOSE i \in byTitle : \A j \in byTitle : i <= j

\* C9: a successful delete removes exactly the task matched by id, else by
\* title, and keeps every other task in place
C9_DeleteRemovesExactlyOne ==
    [][(pc = "menu" /\ lastOp'.op = "dt" /\ lastOp'.res = "ok")
          => read_all_tasks(tasks')
                = RemoveAt(Stored, DeleteTarget(Stored, lastOp'.arg))]_vars

\* C11: an operation other than delete keeps every task: each id that
\* read_all_tasks returns before it is returned after it, and no fewer tasks
C11_OnlyDeleteRemovesTasks ==
    [][lastOp'.op # "dt"
         => /\ Len(read_all_tasks(tasks')) >= Len(Stored)
            /\ \A i \in 1..Len(Stored) : HasId(read_all_tasks(tasks'), Stored[i][1])]_vars

\* C12: every step keeps every line of the user file in its place; a line
\* of two fields may gain a role from Roles as its third field, with the
\* username and the password kept, and any other line is kept as it is
C12_UserRecordsKept ==
    [][/\ Len(users'.lines) >= Len(users.lines)
       /\ \A i \in 1..Len(users.lines) :
             \/ users'.lines[i] = users.lines[i]
             \/ /\ Len(users.lines[i]) = 2
                /\ \E role \in Roles : users'.lines[i] = users.lines[i] \o <<role>>]_vars

\* the startup role check has rewritten the user file: bob has a role, alice
\* is kept
C12_Witness ==
    /\ lastOp.op = "startup" /\ lastOp.res = "updated"
    /\ users.lines[1] = AliceAdmin
    /\ SubSeq(users.lines[2], 1, 2) = BobLegacy /\ Len(users.lines[2]) = 3

\* C13: a reset of a stored task that is complete sets its status to No; a
\* reset of a stored task that is not complete reports that it is already
\* incomplete, reports no task as not found, and writes nothing
C13_ResetOfIncompleteTaskIsNoError ==
    [][(pc = "menu" /\ lastOp'.op = "rc" /\ HasId(Stored, lastOp'.arg))
         => IF StoredComplete(lastOp'.arg)
            THEN /\ lastOp'.res = "ok"
                 /\ \A i \in 1..Len(Stored) :
                       Stored[i][1] = lastOp'.arg => read_all_tasks(tasks')[i][7] = No
            ELSE /\ lastOp'.res = "already incomplete"
                 /\ tasks' = tasks]_vars

\* C14: update_task_complete on a stored id succeeds and leaves every task
\* of that id with status Yes, whatever it was, the number of tasks as it
\* was; run again on the same id right after, it leaves the file as it is
C14_MarkCompleteIdempotent ==
    [][/\ (pc = "menu" /\ lastOp'.op = "uc" /\ HasId(Stored, lastOp'.arg))
            => /\ lastOp'.res = "ok"
               /\ Len(read_all_tasks(tasks')) = Len(Stored)
               /\ \A i \in 1..Len(Stored) :
                     Stored[i][1] = lastOp'.arg => read_all_tasks(tasks')[i][7] = Yes
       /\ (lastOp.op = "uc" /\ lastOp.res = "ok"
             /\ lastOp'.op = "uc" /\ lastOp'.arg = lastOp.arg)
            => (lastOp'.res = "ok" /\ tasks' = tasks)]_vars

\* task 1 of two stored tasks has been marked complete
C14_Witness ==
    /\ lastOp.op = "uc" /\ lastOp.res = "ok" /\ lastOp.arg = Str("1")
    /\ Len(Stored) = 2
    /\ Stored[1][7] = Yes /\ Stored[2][7] = No

\* C15: add_task for a non-empty username that is the first field of no line
\* of the user file is refused as an unknown user and appends nothing
C15_CreateNeedsStoredOwner ==
    [][(pc = "menu" /\ lastOp'.op = "a" /\ lastOp'.arg # EmptyStr
          /\ ~\E i \in 1..Len(users.lines) : Str(users.lines[i][1]) = lastOp'.arg)
         => (lastOp'.res = "does not exist" /\ tasks' = tasks)]_vars

\* a task for ghost, who is no user, has been refused with one task stored
C15_Witness ==
    /\ lastOp.op = "a" /\ lastOp.res = "does not exist" /\ lastOp.arg = Str("ghost")
    /\ Len(Stored) = 1

CreateOwners == {Alice, Str("ghost")}

CreateTitles == {Str("T1"), Str("2"), <<"T1", "x">>}

CreateDues == {Str(Yesterday), Str(Today), Str(Tomorrow)}

\* C16: after a successful add_task the tasks read_all_tasks returns are the
\* ones it returned before, in their order, followed by one task with the
\* next id, the inputs as owner, title, description and due date, the
\* current date as assigned date and status No
C16_CreateAppendsTheTask ==
    [][\A o \in CreateOwners, t \in CreateTitles, due \in CreateDues :
          (AddTask(o, t, Str("D"), due) /\ lastOp'.res = "ok")
             => read_all_tasks(tasks')
                   = Stored \o << <<Str(IntToStr(get_next_task_id(tasks))), o, t, Str("D"),
                                    due, Str(Today), No>> >>]_vars

\* C17: add_task for a stored user with a title and a description: a due
\* date before the current date is refused and nothing is stored; the current
\* date as due date is accepted and one line is appended; the line a create
\* appends has a due date that is not before its assigned date
C17_DueDateNotBeforeToday ==
    [][\A t \in CreateTitles, due \in CreateDues :
          (lastOp'.op = "a" /\ AddTask(Alice, t, Str("D"), due))
             => /\ DateOrd(due) < DateOrd(Str(Today))
                     => (lastOp'.res = "Due date cannot be in the past." /\ tasks' = tasks)
                /\ due = Str(Today)
                     => (lastOp'.res = "ok" /\ Len(tasks'.lines) = Len(tasks.lines) + 1)
                /\ lastOp'.res = "ok"
                     => LET line == tasks'.lines[Len(tasks'.lines)]
                        IN /\ SubSeq(tasks'.lines, 1, Len(tasks.lines)) = tasks.lines
                           /\ Str(line[Len(line) - 2]) = due
                           /\ Str(line[Len(line) - 1]) = Str(Today)
                           /\ DateOrd(Str(line[Len(line) - 2]))
                                 >= DateOrd(Str(line[Len(line) - 1]))]_vars

\* a task due on the current date is stored and a create with an earlier
\* due date has been refused
C17_Witness ==
    /\ lastOp.op = "a" /\ lastOp.res = "Due date cannot be in the past."
    /\ Len(Stored) >= 1
    /\ Stored[Len(Stored)][5] = Str(Today) /\ Stored[Len(Stored)][6] = Str(Today)

EditOwners == {Str("zed"), <<"a", "b">>}

\* C18: after a successful edit of a task whose stored status is not
\* complete, read_all_tasks returns the tasks it returned before with one
\* change: the task of the selected id has the new owner when options 1 or 3
\* asked for one and the new due date when options 2 or 3 asked for one
C18_EditChangesSuppliedFieldsOnly ==
    [][\A task_id \in TaskIdInputs, edit_options \in {"1", "2", "3"},
          new_username \in EditOwners, another \in BOOLEAN :
          (/\ VmEdit(task_id, edit_options, new_username, Str(Tomorrow), another)
           /\ lastOp'.res = "ok"
           /\ ~StoredComplete(task_id))
             => read_all_tasks(tasks')
                   = [i \in 1..Len(Stored) |->
                        IF Stored[i][1] = task_id
                        THEN [Stored[i] EXCEPT
                                ![2] = IF edit_options \in {"1", "3"}
                                       THEN new_username ELSE @,
                                ![5] = IF edit_options \in {"2", "3"}
                                       THEN Str(Tomorrow) ELSE @]
                        ELSE Stored[i]]]_vars

\* C19: the task figures that generate_reports and display_statistics leave
\* in the report files are the figures of the tasks stored when they run,
\* and the user report counts those tasks
C19_ReportsFromCurrentRecords ==
    [][(pc = "menu" /\ lastOp'.op \in {"gr", "ds"} /\ lastOp'.res # "denied")
         => /\ reports'.task = build_task_report(Stored)
            /\ reports'.user.total_tasks = Len(Stored)]_vars

\* the lines of 7 fields whose first field is an integer, as tuples
RECURSIVE WellFormed(_)
WellFormed(lines) ==
    IF lines = <<>> THEN <<>>
    ELSE IF Len(Head(lines)) = 7 /\ IsInt(Str(Head(lines)[1]))
         THEN <<SplitFields(Head(lines))>> \o WellFormed(Tail(lines))
    ELSE WellFormed(Tail(lines))

\* C20: the tasks that view_all_tasks and view_completed_tasks get from
\* read_all_tasks are, in file order, the lines of 7 fields whose id is an
\* integer, and none when the file is missing
C20_LoadKeepsWellFormedLinesOnly ==
    (lastOp.op \in {"va", "vc"} /\ lastOp.res = "shown")
        => Stored = IF tasks.exists THEN WellFormed(tasks.lines) ELSE <<>>

\* p, in hundredths of a percent, is x / total * 100 rounded to two decimals
IsPct(p, x, total) ==
    IF total = 0 THEN p = 0
    ELSE /\ 2 * (p * total - x * 10000) <= total
         /\ 2 * (x * 10000 - p * total) <= total

\* C21: the task report generate_reports writes has total = the number of
\* stored tasks, completed = the number with status Yes, incomplete = total -
\* completed, overdue = the number with status No and a due date before the
\* current date, so overdue <= incomplete <= total; its percentages are
\* incomplete / total and overdue / total times 100, and 0 for no tasks
C21_TaskReportFigures ==
    [][(pc = "menu" /\ lastOp'.op = "gr" /\ lastOp'.res # "denied")
         => LET r == reports'.task
                done == {i \in 1..Len(Stored) : Stored[i][7] = Yes}
                late == {i \in 1..Len(Stored) :
                           /\ Stored[i][7] = No
                           /\ Stored[i][5] = Str(Yesterday)}
            IN /\ r.exists
               /\ r.total = Len(Stored)
               /\ r.completed = Cardinality(done)
               /\ r.incomplete = r.total - r.completed
               /\ r.overdue = Cardinality(late)
               /\ r.overdue <= r.incomplete /\ r.incomplete <= r.total
               /\ IsPct(r.incomplete_pct, r.incomplete, r.total)
               /\ IsPct(r.overdue_pct, r.overdue, r.total)
               /\ (r.total = 0 => (r.incomplete_pct = 0 /\ r.overdue_pct = 0))]_vars

\* the reports of two tasks of alice, one incomplete and overdue and one
\* complete: overdue 1, completed 1, incomplete 1, overdue 50.00 percent
C21_Witness ==
    /\ lastOp.op = "gr" /\ lastOp.res = "ok"
    /\ Len(Stored) = 2
    /\ \A i \in 1..2 : Stored[i][2] = Alice
    /\ reports.task.overdue = 1 /\ reports.task.completed = 1
    /\ reports.task.incomplete = 1 /\ reports.task.overdue_pct = 5000

\* the users generate_reports writes a row for: the first fields of the
\* 3-field lines of the user file, in file order
RowUsers == report_users(users.lines)

\* C22: generate_reports completes whatever the due dates are, an unparsable
\* one included: the user report has a row for every user, and the overdue
\* figure of a row counts the tasks of that user with status No and a due
\* date before the current date
C22_UserReportSkipsUnparsableDueDate ==
    [][(pc = "menu" /\ lastOp'.op = "gr" /\ lastOp'.res # "denied")
         => /\ lastOp'.res = "ok"
            /\ reports'.user.exists
            /\ Len(reports'.user.rows) = Len(RowUsers)
            /\ \A k \in 1..Len(RowUsers) :
                  /\ reports'.user.rows[k].user = RowUsers[k]
                  /\ reports'.user.rows[k].overdue =
                        Cardinality({i \in 1..Len(Stored) :
                           /\ Stored[i][2] = RowUsers[k]
                           /\ Stored[i][7] = No
                           /\ Stored[i][5] = Str(Yesterday)})]_vars

\* two percentages, in hundredths, that add up to 100 within one hundredth
SumTo100(p, q) == p + q \in {9999, 10000, 10001}

\* C23: in every row of the user report, completed + incomplete is the number
\* of tasks of the user; with at least one task the completed and the
\* incomplete percentage add up to 100 within rounding, with none both are
\* 0.  In the task report completed + incomplete is the number of tasks; the
\* incomplete percentage and completed / total * 100 add up to 100 within
\* rounding for at least one task, and the incomplete percentage is 0 for none
C23_PercentagesConsistent ==
    /\ reports.user.exists =>
          \A k \in 1..Len(reports.user.rows) :
             LET row == reports.user.rows[k]
             IN /\ row.count = Len(OwnedBy(Stored, row.user))
                /\ row.completed + row.incomplete = row.count
                /\ IsPct(row.completed_pct, row.completed, row.count)
                /\ IsPct(row.incomplete_pct, row.incomplete, row.count)
                /\ row.count > 0 => SumTo100(row.completed_pct, row.incomplete_pct)
                /\ row.count = 0 => (row.completed_pct = 0 /\ row.incomplete_pct = 0)
    /\ reports.task.exists =>
          LET r == reports.task
          IN /\ r.total = Len(Stored)
             /\ r.completed + r.incomplete = r.total
             /\ r.total > 0 =>
                   \E d \in {-1, 0, 1} :
                      IsPct(10000 - r.incomplete_pct + d, r.completed, r.total)
             /\ r.total = 0 => r.incomplete_pct = 0

\* the reports of two tasks of alice, one of them complete, and none of bob:
\* 50.00 and 50.00 percent for alice, 0 and 0 for bob
C23_Witness ==
    /\ lastOp.op = "gr" /\ lastOp.res = "ok"
    /\ Len(reports.user.rows) = 2
    /\ reports.user.rows[1].count = 2
    /\ reports.user.rows[1].completed_pct = 5000
    /\ reports.user.rows[1].incomplete_pct = 5000
    /\ reports.user.rows[2].count = 0
    /\ reports.user.rows[2].completed_pct = 0
    /\ reports.user.rows[2].incomplete_pct = 0

\* C24: a run of verify_and_update_user_roles, at startup or from the menu,
\* gives every 2-field line of the user file a role from Roles as third
\* field, username and password kept, and leaves no 2-field line; with no
\* 2-field line it writes nothing and calls no backup_file, so a run right
\* after a run leaves the file as it is
C24_BackfillUpgradesOnce ==
    [][(lastOp'.op \in {"startup", "vr"} /\ lastOp'.res # "denied")
         => /\ \A i \in 1..Len(users.lines) :
                  Len(users.lines[i]) = 2
                     => \E j \in 1..Len(users'.lines), role \in Roles :
                           users'.lines[j] = users.lines[i] \o <<role>>
            /\ ~\E j \in 1..Len(users'.lines) : Len(users'.lines[j]) = 2
            /\ (~\E i \in 1..Len(users.lines) : Len(users.lines[i]) = 2)
                  => (users' = users /\ ~lastOp'.backup.tried)
            /\ (lastOp.op \in {"startup", "vr"} /\ lastOp.res # "denied")
                  => (users' = users /\ ~lastOp'.backup.tried)]_vars

\* bob, stored with two fields, got the role Admin at startup, and a run
\* from the menu has left the file alone
C24_Witness ==
    /\ lastOp.op = "vr" /\ lastOp.res = "" /\ ~lastOp.backup.tried
    /\ Len(users.lines) >= 2
    /\ users.lines[2] = BobLegacy \o <<"Admin">>

\* C25: every step that changes the user file is taken at the menu of a
\* session whose current user has the role Admin
C25_UserFileChangesInAdminSession ==
    [][users' # users
         => (pc = "menu" /\ cur # NoUser /\ IsAdmin(cur.role))]_vars

\* the lines of 7 fields whose id and title both differ from the identifier
RECURSIVE KeptLines(_, _)
KeptLines(lines, task_identifier) ==
    IF lines = <<>> THEN <<>>
    ELSE IF /\ Len(Head(lines)) = 7
            /\ Str(Head(lines)[1]) # task_identifier
            /\ Str(Head(lines)[3]) # task_identifier
         THEN <<Head(lines)>> \o KeptLines(Tail(lines), task_identifier)
    ELSE KeptLines(Tail(lines), task_identifier)

\* C26: whether the copy of backup_file is made or fails, a delete_task that
\* finds the identifier among the stored tasks reports success and rewrites
\* the task file without the matching tasks, and a role check of a user file
\* with a 2-field line rewrites it with a role on every such line: the
\* outcome does not depend on the copy
C26_FailedBackupDoesNotBlock ==
    [][/\ (pc = "menu" /\ lastOp'.op = "dt" /\ lastOp'.res # "denied")
            => /\ lastOp'.backup.tried
               /\ IF \E i \in 1..Len(Stored) : delete_match(Stored[i], lastOp'.arg)
                  THEN /\ lastOp'.res = "ok"
                       /\ tasks' = File(KeptLines(tasks.lines, lastOp'.arg))
                  ELSE /\ lastOp'.res = "not found"
                       /\ tasks' = tasks
       /\ (lastOp'.op \in {"startup", "vr"} /\ lastOp'.res # "denied"
             /\ \E i \in 1..Len(users.lines) : Len(users.lines[i]) = 2)
            => /\ lastOp'.backup.tried
               /\ lastOp'.res = "updated"
               /\ users'.exists
               /\ Len(users'.lines) = Len(users.lines)
               /\ \A i \in 1..Len(users.lines) :
                     /\ Len(users'.lines[i]) = 3
                     /\ SubSeq(users'.lines[i], 1, 2) = SubSeq(users.lines[i], 1, 2)]_vars

\* a delete whose backup copy failed has removed a task all the same
C26_Witness ==
    /\ lastOp.op = "dt" /\ lastOp.res = "ok"
    /\ lastOp.backup.tried /\ ~lastOp.backup.copy.exists
    /\ tasks.exists /\ ~HasId(Stored, lastOp.arg)

\* the integer ids of a list of tasks
IntIds(ts) == {ParseInt(ts[i][1]) : i \in {j \in 1..Len(ts) : IsInt(ts[j][1])}}

\* 1 for no id, else one more than the greatest id
OneAboveMax(ids) ==
    IF ids = {} THEN 1 ELSE 1 + CHOOSE m \in ids : \A n \in ids : n <= m

\* C27: get_next_task_id gives 1 when the task file is missing or
\* read_all_tasks returns no task with an id, and one more than the greatest
\* id of the tasks read_all_tasks returns otherwise; a successful create
\* stores that id as the first field of the line it appends
C27_NextIdIsMaxPlusOne ==
    /\ [](get_next_task_id(tasks) = OneAboveMax(IntIds(Stored)))
    /\ [](~tasks.exists => get_next_task_id(tasks) = 1)
    /\ [][(pc = "menu" /\ lastOp'.op = "a" /\ lastOp'.res = "ok")
            => /\ lastOp'.id = OneAboveMax(IntIds(Stored))
               /\ tasks'.lines[Len(tasks'.lines)][1] = IntToStr(lastOp'.id)]_vars

\* a create on a file that holds task 1 has stored task 2
C27_Witness ==
    /\ lastOp.op = "a" /\ lastOp.res = "ok" /\ lastOp.id = 2
    /\ Len(Stored) = 2
    /\ Stored[1][1] = Str("1") /\ Stored[2][1] = Str("2")

\* C28: an edit of a stored task whose stored status is not complete, asked
\* for with a non-empty new owner (options 1 and 3), succeeds whether or not
\* the new owner is a stored user, and the task is stored with that owner
C28_EditStoresAnyNonEmptyOwner ==
    [][\A task_id \in TaskIdInputs, edit_options \in {"1", "3"},
          new_username \in EditOwners, another \in BOOLEAN :
          (/\ lastOp'.op = "vm_edit"
           /\ VmEdit(task_id, edit_options, new_username, Str(Tomorrow), another)
           /\ HasId(Stored, task_id)
           /\ ~StoredComplete(task_id))
             => /\ lastOp'.res = "ok"
                /\ \E i \in 1..Len(read_all_tasks(tasks')) :
                      /\ read_all_tasks(tasks')[i][1] = task_id
                      /\ read_all_tasks(tasks')[i][2] = new_username]_vars

EditDues == {Str(Yesterday), Str("soon")}

\* C29: an edit of a stored task whose stored status is not complete, asked
\* for with a new due date (options 2 and 3): a date before the current date
\* is accepted and stored as the due date of the task; a text that is no
\* date is refused and nothing is written
C29_EditChecksDueDateFormatOnly ==
    [][\A task_id \in TaskIdInputs, edit_options \in {"2", "3"},
          new_due_date \in EditDues, another \in BOOLEAN :
          (/\ lastOp'.op = "vm_edit"
           /\ VmEdit(task_id, edit_options, Str("zed"), new_due_date, another)
           /\ HasId(Stored, task_id)
           /\ ~StoredComplete(task_id))
             => IF new_due_date = Str(Yesterday)
                THEN /\ lastOp'.res = "ok"
                     /\ \A i \in 1..Len(Stored) :
                           Stored[i][1] = task_id
                              => read_all_tasks(tasks')[i][5] = new_due_date
                ELSE /\ lastOp'.res = "Invalid date format. Please use YYYY-MM-DD."
                     /\ tasks' = tasks]_vars

\* C30: a status toggle, update_task_complete and reset_task_incomplete keep
\* the tasks in their number and order and change at most the status of the
\* tasks with the given id; and in every step a task that is stored before
\* and after keeps its id and its assigned date
C30_StatusOpsChangeStatusOnly ==
    [][/\ lastOp'.op \in {"vm_toggle", "uc", "rc"}
            => /\ Len(read_all_tasks(tasks')) = Len(Stored)
               /\ \A i \in 1..Len(Stored) :
                     /\ \A f \in 1..6 : read_all_tasks(tasks')[i][f] = Stored[i][f]
                     /\ Stored[i][1] # lastOp'.arg
                           => read_all_tasks(tasks')[i] = Stored[i]
       /\ \A j \in 1..Len(read_all_tasks(tasks')), i \in 1..Len(Stored) :
             read_all_tasks(tasks')[j][1] = Stored[i][1]
                => read_all_tasks(tasks')[j][6] = Stored[i][6]
       /\ (lastOp'.op # "dt" /\ Len(read_all_tasks(tasks')) >= Len(Stored))
            => \A i \in 1..Len(Stored) :
                  /\ read_all_tasks(tasks')[i][1] = Stored[i][1]
                  /\ read_all_tasks(tasks')[i][6] = Stored[i][6]]_vars

\* of two stored tasks, task 2 has been toggled to Yes and task 1 is as it
\* was created
C30_Witness ==
    /\ lastOp.op = "vm_toggle" /\ lastOp.res = "ok" /\ lastOp.arg = Str("2")
    /\ Len(Stored) = 2
    /\ Stored[1] = SplitFields(OldTask)
    /\ Stored[2][7] = Yes /\ Stored[2][6] = Str(Today)

\* C31: update_task_complete and reset_task_incomplete with an id that no
\* stored task has, and delete_task with an identifier that is the id and
\* the title of no stored task, report the task as not found and leave the
\* task file as it was, missing or with every line it had
C31_LookupFailureChangesNothing ==
    [][/\ (pc = "menu" /\ lastOp'.op \in {"uc", "rc"} /\ lastOp'.res # "denied"
             /\ ~\E i \in 1..Len(Stored) : Stored[i][1] = lastOp'.arg)
            => (lastOp'.res = "not found" /\ tasks' = tasks)
       /\ (pc = "menu" /\ lastOp'.op = "dt" /\ lastOp'.res # "denied"
             /\ ~\E i \in 1..Len(Stored) :
                    Stored[i][1] = lastOp'.arg \/ Stored[i][3] = lastOp'.arg)
            => (lastOp'.res = "not found" /\ tasks' = tasks)]_vars

\* a delete of task 2 has found no such task: the file still has its two
\* lines, the line of task 1 and a line of 6 fields
C31_Witness ==
    /\ lastOp.op = "dt" /\ lastOp.res = "not found" /\ lastOp.arg = Str("2")
    /\ tasks = File(<<OldTask, ShortLine>>)

RegisterNames == {Carol, Alice, Str("al")}

RegisterPasswords == {Str("secret1"), Str("pw"), <<"pass", "word">>}

\* C32: after a successful register_user with a username, a password and a
\* role, login_user with that username and that password on the user file
\* as the registration left it returns a user of that username and role
C32_RegisteredUserCanLogIn ==
    [][\A username \in RegisterNames, password \in RegisterPasswords, role \in Roles :
          (/\ lastOp'.op = "r"
           /\ Register(username, password, password, role)
           /\ lastOp'.res = "ok")
             => LET r == login_user(users', username, password)
                IN /\ r.msg = "Welcome"
                   /\ Str(r.user.username) = username
                   /\ r.user.role = role]_vars

\* C33: after a successful add_task, read_all_tasks returns a task with the
\* id the create assigned and the owner, title, description and due date
\* that were entered, and get_next_task_id is greater than that id
C33_CreatedTaskIsLoaded ==
    [][\A o \in CreateOwners, t \in CreateTitles, due \in CreateDues :
          (/\ lastOp'.op = "a"
           /\ AddTask(o, t, Str("D"), due)
           /\ lastOp'.res = "ok")
             => /\ \E i \in 1..Len(read_all_tasks(tasks')) :
                      LET task == read_all_tasks(tasks')[i]
                      IN /\ task[1] = Str(IntToStr(lastOp'.id))
                         /\ task[2] = o /\ task[3] = t /\ task[4] = Str("D")
                         /\ task[5] = due
                /\ get_next_task_id(tasks') > lastOp'.id]_vars

\* what lastOp names besides the menu choices: the initial state, the
\* startup role check and login_user
NonMenuOps == {"init", "startup", "login"}

\* the current user is a user login_user returned: its username, password
\* and role are those of one 3-field line of the user file
CurIsStoredUser ==
    /\ cur # NoUser
    /\ \E i \in 1..Len(users.lines) :
          users.lines[i] = <<cur.username, cur.password, cur.role>>

\* C34: the session loop runs only with a current user that login_user
\* returned for a stored record; every menu choice is taken in the session
\* loop and keeps the current user; from the login prompt, where a logout
\* leaves the program, the only step is a login, which changes no file and
\* enters the session loop only when it succeeds; and a menu choice is
\* denied exactly when it is Admin-only and the role of the current user,
\* the role of the record matched at login, is not Admin
C34_SessionDiscipline ==
    /\ [](pc \in {"menu", "vm"} => CurIsStoredUser)
    /\ [](lastOp.op = "lo" => pc = "login")
    /\ [][/\ (lastOp'.op \notin NonMenuOps)
                => (pc \in {"menu", "vm"} /\ cur' = cur)
          /\ (pc = "login")
                => (/\ lastOp'.op = "login"
                    /\ UNCHANGED <<users, tasks, reports>>
                    /\ pc' \in {"login", "menu"}
                    /\ (pc' = "menu") <=> (lastOp'.res = "Welcome")
                    /\ (pc' = "menu") =>
                          (/\ Str(cur'.username) = lastOp'.arg
                           /\ \E i \in 1..Len(users.lines) :
                                 users.lines[i]
                                    = <<cur'.username, cur'.password, cur'.role>>)
                    /\ (pc' = "login") => (cur' = NoUser))
          /\ (pc = "menu" /\ lastOp'.op \in AdminOnlyMenu \cup AnyUserMenu)
                => ((lastOp'.res = "denied")
                      <=> (lastOp'.op \in AdminOnlyMenu /\ ~IsAdmin(cur.role)))]_vars

\* carol was registered in a session of an Admin, that session was left, and
\* a login with a wrong password has left the program at the login prompt
\* with no current user
C34_Witness ==
    /\ lastOp.op = "login" /\ lastOp.res # "Welcome"
    /\ pc = "login" /\ cur = NoUser
    /\ Len(users.lines) = 3 /\ users.lines[3][1] = "carol"
    /\ tasks.exists

\* the operations that rewrite the task file to set a status
StatusOps == {"vm_toggle", "uc", "rc"}

\* the call of backup_file an operation made on a file: the copy holds the
\* file as it was, or the copy failed and there is none
BackedUp(op, file) == op.backup.tried /\ op.backup.copy \in {file, NoFile}

====
